---- MODULE Spec2Model ----
(***************************************************************************)
(* HoopsAI: the App component (src/App.tsx) as a state machine.            *)
(*                                                                         *)
(* The state is the React state of App, the refs it holds, the playback    *)
(* surface (the <video> element behind videoRef), the MediaRecorder of an  *)
(* export run, and the position of every asynchronous handler that is      *)
(* suspended at an await.  JavaScript runs each handler to its next await  *)
(* without interruption, so one action is one such run-to-suspension.      *)
(* Times are whole seconds.                                                *)
(***************************************************************************)
EXTENDS Integers, Sequences, FiniteSets, Bags, TLC

\* ---------------------------------------------------------------- bounds
\* Length of the loaded media, in seconds.
Duration == 10
\* Largest advance of currentTime between two timeupdate notifications.
MaxStep == 2
\* How many times each user operation is started in one session.
MaxOps == 4
MaxExports == 2
\* Blobs the recorder delivers before it is stopped, and their largest size.
MaxChunks == 3
MaxChunkSize == 2
\* How many questions the user sends to the chat in one session.
MaxChats == 2

VARIABLES
    videoFile,             \* useState videoFile / videoUrl: a video is loaded
    events,                \* useState events: sequence of VideoEvent
    messages,              \* useState messages: the AgentMessages, as a bag
    isProcessing,          \* useState isProcessing
    isExporting,           \* useState isExporting
    generatedAudioBuffer,  \* useState generatedAudioBuffer
    audioContextRef,       \* audioContextRef.current is set
    video,                 \* the element behind videoRef: currentTime, muted, paused
    tasks,                 \* handlers suspended at an await (analyze, commentary, chat)
    exp,                   \* closure of the running handleExportVideo call
    pending,               \* segment indices whose `await video.play()` is outstanding
    listeners,             \* segment indices whose checkTime is attached to 'timeupdate'
    recorder,              \* the run's MediaRecorder: state and whether it gathered data
    chunks,                \* the run's chunks array
    downloads,             \* blobs handed to a.click(), in order
    trace,                 \* calls the sequencer made on the surface and the recorder
    io                     \* alert() and console.error() of the latest step

vars == <<videoFile, events, messages, isProcessing, isExporting,
          generatedAudioBuffer, audioContextRef, video, tasks, exp, pending,
          listeners, recorder, chunks, downloads, trace, io>>

appVars == <<videoFile, events, messages, isProcessing, generatedAudioBuffer,
             audioContextRef, tasks>>
exportVars == <<isExporting, exp, pending, listeners, recorder, chunks,
                downloads, trace>>

\* ---------------------------------------------------------------- data
Min(a, b) == IF a <= b THEN a ELSE b

\* Segments the detection service reports: {0,2} and {5,7} are the segments
\* of the specification's scenario A, the third ends after the media does.
Clip(startTime, endTime) == [startTime |-> startTime, endTime |-> endTime]
BeyondEnd == Clip(5, Duration + 2)

\* The lists JSON.parse hands back from the detection call: none detected,
\* scenario A out of order, and two segments that start together, the first
\* of them ending after the media.
DetectedLists ==
    { <<>>,
      <<Clip(5, 7), Clip(0, 2)>>,
      <<BeyondEnd, Clip(5, 7)>> }

Msg(role, content) == [role |-> role, content |-> content]

\* addMessage(role, content).  The list is only ever appended to and rendered:
\* no handler reads it.  The model keeps which messages it holds and how many
\* of each, not their order.
addMessage(msgs, role, content) == msgs (+) SetToBag({Msg(role, content)})

\* How many messages with this content the list holds.
CountMsg(content) ==
    LET hits == { m \in BagToSet(messages) : m.content = content }
    IN  IF hits = {} THEN 0
        ELSE LET m == CHOOSE x \in hits : TRUE IN CopiesIn(m, messages)

OpsStarted ==
    CountMsg("uploaded") + CountMsg("analyze") + CountMsg("generate")

NoBuffer == [present |-> FALSE, from |-> <<>>]
\* The AudioBuffer decoded from the speech synthesized for the list `evs`.
BufferOf(evs) == [present |-> TRUE, from |-> evs]

Quiet == [alert |-> "none", error |-> "none"]
Alert(a) == [alert |-> a, error |-> "none"]
ConsoleError(e) == [alert |-> "none", error |-> e]

NoExport == [events |-> <<>>, originalTime |-> 0, originalMuted |-> FALSE]
NoRecorder == [state |-> "none", hasData |-> FALSE]

Task(h, pc, ev) == [h |-> h, pc |-> pc, ev |-> ev]

\* detectedEvents.sort((a, b) => a.startTime - b.startTime): Array.prototype.sort
\* is stable, so equal startTimes keep their order.
\* An insertion that puts an event before the events that start with it.
RECURSIVE InsertBeforeEquals(_, _)
InsertBeforeEquals(sorted, e) ==
    IF sorted = <<>> THEN <<e>>
    ELSE IF Head(sorted).startTime - e.startTime < 0
         THEN <<Head(sorted)>> \o InsertBeforeEquals(Tail(sorted), e)
         ELSE <<e>> \o sorted

RECURSIVE InsertByStartTime(_, _)
InsertByStartTime(sorted, e) ==
    IF sorted = <<>> THEN <<e>>
    ELSE IF Head(sorted).startTime - e.startTime <= 0
         THEN <<Head(sorted)>> \o InsertByStartTime(Tail(sorted), e)
         ELSE <<e>> \o sorted

RECURSIVE SortByStartTime(_)
SortByStartTime(s) ==
    IF s = <<>> THEN <<>>
    ELSE InsertByStartTime(SortByStartTime(SubSeq(s, 1, Len(s) - 1)), s[Len(s)])

\* detectedEvents.map((e, i) => ({ ...e, id: `evt-${i}` }))
WithIds(s) ==
    [i \in 1..Len(s) |->
        [startTime |-> s[i].startTime, endTime |-> s[i].endTime,
         id |-> <<"evt", i - 1>>]]

\* ---------------------------------------------------------------- Init
Init ==
    /\ videoFile = FALSE
    /\ events = <<>>
    /\ messages = SetToBag({Msg("agent", "welcome")})
    /\ isProcessing = FALSE
    /\ isExporting = FALSE
    /\ generatedAudioBuffer = NoBuffer
    /\ audioContextRef = FALSE
    /\ video = [currentTime |-> 0, muted |-> FALSE, paused |-> TRUE]
    /\ tasks = {}
    /\ exp = NoExport
    /\ pending = {}
    /\ listeners = {}
    /\ recorder = NoRecorder
    /\ chunks = <<>>
    /\ downloads = <<>>
    /\ trace = <<>>
    /\ io = Quiet

\* alert() blocks the page: no handler or callback runs while one is showing.
Ready == io.alert = "none"

\* ---------------------------------------------------------------- upload
\* handleFileUpload: no file, a file over 10 MB, or an accepted file.
UploadNoFile ==
    /\ Ready
    /\ io' = Quiet
    /\ UNCHANGED <<appVars, exportVars, video>>

UploadTooLarge ==
    /\ Ready
    /\ io' = Alert("file too large")
    /\ UNCHANGED <<appVars, exportVars, video>>

\* An accepted upload that forgets setGeneratedAudioBuffer(null).
UploadAcceptedKeepsBuffer ==
    /\ Ready
    /\ OpsStarted < MaxOps
    /\ videoFile' = TRUE
    /\ events' = <<>>
    /\ messages' = addMessage(addMessage(messages, "user", "uploaded"),
                              "agent", "video loaded")
    /\ io' = Quiet
    /\ UNCHANGED <<generatedAudioBuffer, isProcessing, audioContextRef, tasks,
                   exportVars, video>>

UploadAccepted ==
    /\ Ready
    /\ OpsStarted < MaxOps
    /\ videoFile' = TRUE
    /\ events' = <<>>
    /\ generatedAudioBuffer' = NoBuffer
    /\ messages' = addMessage(addMessage(messages, "user", "uploaded"),
                              "agent", "video loaded")
    /\ io' = Quiet
    /\ UNCHANGED <<isProcessing, audioContextRef, tasks, exportVars, video>>

handleFileUpload == UploadNoFile \/ UploadTooLarge \/ UploadAccepted

\* ---------------------------------------------------------------- finally
\* The `finally { setIsProcessing(false) }` of a handler, which ends task t.
FinallyKeepsProcessing(t) ==
    /\ isProcessing' = isProcessing
    /\ tasks' = tasks \ {t}

Finally(t) ==
    /\ isProcessing' = FALSE
    /\ tasks' = tasks \ {t}

\* ---------------------------------------------------------------- analyze
\* The analyze button is disabled while !videoUrl || isProcessing.
AnalyzeDisabled == ~videoFile \/ isProcessing

handleAnalyze ==
    /\ Ready
    /\ ~AnalyzeDisabled
    /\ videoFile
    /\ OpsStarted < MaxOps
    /\ isProcessing' = TRUE
    /\ messages' = addMessage(addMessage(messages, "user", "analyze"),
                              "agent", "analyzing")
    /\ tasks' = tasks \cup {Task("analyze", "read", <<>>)}
    /\ io' = Quiet
    /\ UNCHANGED <<videoFile, events, generatedAudioBuffer, audioContextRef,
                   exportVars, video>>

\* catch (error) of handleAnalyze, then finally.  `logged` is what the
\* console shows: "Analysis failed", preceded by "Error analyzing video" when
\* analyzeBasketballVideo threw.
AnalyzeCatch(t, logged) ==
    /\ messages' = addMessage(messages, "agent", "analysis failed")
    /\ Finally(t)
    /\ io' = ConsoleError(logged)

\* await fileToGenerativePart(videoFile) settles.
AnalyzeRead ==
    /\ Ready
    /\ \E t \in tasks :
        /\ t.h = "analyze" /\ t.pc = "read"
        /\ tasks' = (tasks \ {t}) \cup {Task("analyze", "detect", <<>>)}
        /\ io' = Quiet
        /\ UNCHANGED <<videoFile, events, messages, isProcessing,
                       generatedAudioBuffer, audioContextRef, exportVars, video>>

AnalyzeReadFailed ==
    /\ Ready
    /\ \E t \in tasks :
        /\ t.h = "analyze" /\ t.pc = "read"
        /\ AnalyzeCatch(t, "Analysis failed")
        /\ UNCHANGED <<videoFile, events, generatedAudioBuffer, audioContextRef,
                       exportVars, video>>

\* await analyzeBasketballVideo(...) resolves with `raw`: sort, add ids,
\* setEvents, then suspend in chatSessionRef.current.sendMessage.
AnalyzeDetected ==
    /\ Ready
    /\ \E t \in tasks, raw \in DetectedLists :
        /\ t.h = "analyze" /\ t.pc = "detect"
        /\ events' = WithIds(SortByStartTime(raw))
        /\ tasks' = (tasks \ {t}) \cup {Task("analyze", "context", <<>>)}
        /\ io' = Quiet
        /\ UNCHANGED <<videoFile, messages, isProcessing, generatedAudioBuffer,
                       audioContextRef, exportVars, video>>

\* analyzeBasketballVideo logs and rethrows; handleAnalyze catches.
AnalyzeDetectFailed ==
    /\ Ready
    /\ \E t \in tasks :
        /\ t.h = "analyze" /\ t.pc = "detect"
        /\ AnalyzeCatch(t, "Error analyzing video, Analysis failed")
        /\ UNCHANGED <<videoFile, events, generatedAudioBuffer, audioContextRef,
                       exportVars, video>>

\* The context sendMessage resolves: the completion message, then finally.
AnalyzeDone ==
    /\ Ready
    /\ \E t \in tasks :
        /\ t.h = "analyze" /\ t.pc = "context"
        /\ messages' = addMessage(messages, "agent", "analysis complete")
        /\ Finally(t)
        /\ io' = Quiet
        /\ UNCHANGED <<videoFile, events, generatedAudioBuffer, audioContextRef,
                       exportVars, video>>

AnalyzeContextFailed ==
    /\ Ready
    /\ \E t \in tasks :
        /\ t.h = "analyze" /\ t.pc = "context"
        /\ AnalyzeCatch(t, "Analysis failed")
        /\ UNCHANGED <<videoFile, events, generatedAudioBuffer, audioContextRef,
                       exportVars, video>>

\* ---------------------------------------------------------------- commentary
\* The commentary button is disabled while events.length === 0 || isProcessing.
CommentaryDisabled == events = <<>> \/ isProcessing

handleGenerateCommentary ==
    /\ Ready
    /\ ~CommentaryDisabled
    /\ Len(events) # 0
    /\ OpsStarted < MaxOps
    /\ isProcessing' = TRUE
    /\ messages' = addMessage(addMessage(messages, "user", "generate"),
                              "agent", "writing script")
    /\ tasks' = tasks \cup {Task("commentary", "script", events)}
    /\ io' = Quiet
    /\ UNCHANGED <<videoFile, events, generatedAudioBuffer, audioContextRef,
                   exportVars, video>>

\* catch (error) of handleGenerateCommentary, then finally.
CommentaryCatch(t) ==
    /\ messages' = addMessage(messages, "agent", "commentary failed")
    /\ Finally(t)
    /\ io' = ConsoleError("commentary error")

\* await generateCommentaryScript(events) resolves: the script message, then
\* suspend in generateAudioCommentary(script).
CommentaryScript ==
    /\ Ready
    /\ \E t \in tasks :
        /\ t.h = "commentary" /\ t.pc = "script"
        /\ messages' = addMessage(messages, "agent", "script")
        /\ tasks' = (tasks \ {t}) \cup {Task("commentary", "tts", t.ev)}
        /\ io' = Quiet
        /\ UNCHANGED <<videoFile, events, isProcessing, generatedAudioBuffer,
                       audioContextRef, exportVars, video>>

CommentaryScriptFailed ==
    /\ Ready
    /\ \E t \in tasks :
        /\ t.h = "commentary" /\ t.pc = "script"
        /\ CommentaryCatch(t)
        /\ UNCHANGED <<videoFile, events, generatedAudioBuffer, audioContextRef,
                       exportVars, video>>

\* generateAudioCommentary resolves with audio: create the AudioContext if
\* there is none, decode, suspend in decodeAudioData.
CommentaryAudio ==
    /\ Ready
    /\ \E t \in tasks :
        /\ t.h = "commentary" /\ t.pc = "tts"
        /\ audioContextRef' = TRUE
        /\ tasks' = (tasks \ {t}) \cup {Task("commentary", "decode", t.ev)}
        /\ io' = Quiet
        /\ UNCHANGED <<videoFile, events, messages, isProcessing,
                       generatedAudioBuffer, exportVars, video>>

\* generateAudioCommentary resolves with undefined: either the response held
\* no audio (failed = FALSE) or the call threw and was logged (failed = TRUE).
CommentaryNoAudio ==
    /\ Ready
    /\ \E t \in tasks, failed \in BOOLEAN :
        /\ t.h = "commentary" /\ t.pc = "tts"
        /\ messages' = addMessage(messages, "agent", "no audio")
        /\ Finally(t)
        /\ io' = IF failed THEN ConsoleError("TTS Error") ELSE Quiet
        /\ UNCHANGED <<videoFile, events, generatedAudioBuffer, audioContextRef,
                       exportVars, video>>

\* decodeAudioData resolves: setGeneratedAudioBuffer, message, playAudioBuffer.
CommentaryDecoded ==
    /\ Ready
    /\ \E t \in tasks :
        /\ t.h = "commentary" /\ t.pc = "decode"
        /\ generatedAudioBuffer' = BufferOf(t.ev)
        /\ messages' = addMessage(messages, "agent", "commentary ready")
        /\ Finally(t)
        /\ io' = Quiet
        /\ UNCHANGED <<videoFile, events, audioContextRef, exportVars, video>>

CommentaryDecodeFailed ==
    /\ Ready
    /\ \E t \in tasks :
        /\ t.h = "commentary" /\ t.pc = "decode"
        /\ CommentaryCatch(t)
        /\ UNCHANGED <<videoFile, events, generatedAudioBuffer, audioContextRef,
                       exportVars, video>>

\* ---------------------------------------------------------------- chat
\* Texts the user submits: an input that trims to nothing, and a question.
ChatTexts == {"", "question"}

\* A form that does not look at isProcessing.
ChatDisabledIgnoresProcessing(inputText) == inputText = ""

\* AgentChat: the input is disabled while isProcessing, the send button while
\* !inputText.trim() || isProcessing, and handleSubmit returns on the same test.
ChatDisabled(inputText) == inputText = "" \/ isProcessing

\* handleChat(text).  chatSessionRef.current is set by the mount effect and
\* never cleared, so the guard at its top does not return.
handleChat(text) ==
    /\ messages' = addMessage(messages, "user", "chat")
    /\ isProcessing' = TRUE
    /\ tasks' = tasks \cup {Task("chat", "reply", <<>>)}

\* handleSubmit of AgentChat: nothing when the form is disabled, otherwise
\* onSendMessage(inputText), which is handleChat.
handleSubmit ==
    /\ Ready
    /\ \E inputText \in ChatTexts :
        IF ChatDisabled(inputText)
        THEN UNCHANGED <<messages, isProcessing, tasks>>
        ELSE /\ CountMsg("chat") < MaxChats
             /\ handleChat(inputText)
    /\ io' = Quiet
    /\ UNCHANGED <<videoFile, events, generatedAudioBuffer, audioContextRef,
                   exportVars, video>>

\* await chatSessionRef.current.sendMessage(...) resolves: the reply, finally.
ChatReplied ==
    /\ Ready
    /\ \E t \in tasks :
        /\ t.h = "chat"
        /\ messages' = addMessage(messages, "agent", "chat reply")
        /\ Finally(t)
        /\ io' = Quiet
        /\ UNCHANGED <<videoFile, events, generatedAudioBuffer, audioContextRef,
                       exportVars, video>>

\* sendMessage rejects: console.error(e), the apology, finally.
ChatFailed ==
    /\ Ready
    /\ \E t \in tasks :
        /\ t.h = "chat"
        /\ messages' = addMessage(messages, "agent", "chat failed")
        /\ Finally(t)
        /\ io' = ConsoleError("chat error")
        /\ UNCHANGED <<videoFile, events, generatedAudioBuffer, audioContextRef,
                       exportVars, video>>

\* ---------------------------------------------------------------- seek
\* handleSeek(evt.startTime), from a click on an entry of the clip list.
handleSeek ==
    /\ Ready
    /\ \E k \in DOMAIN events :
        /\ videoFile
        /\ video' = [video EXCEPT !.currentTime = Min(events[k].startTime, Duration),
                                  !.paused = FALSE]
        /\ io' = Quiet
        /\ UNCHANGED <<appVars, exportVars>>

\* ---------------------------------------------------------------- export
\* A button that does not look at isExporting.
ExportDisabledIgnoresExporting == ~generatedAudioBuffer.present

\* The export button is disabled while !generatedAudioBuffer || isExporting.
ExportDisabled == ~generatedAudioBuffer.present \/ isExporting

\* A guard that does not look at the events list.
ExportPreconditionIgnoresEvents ==
    /\ videoFile
    /\ generatedAudioBuffer.present
    /\ audioContextRef

\* The guard at the top of handleExportVideo, negated.
ExportPrecondition ==
    /\ videoFile
    /\ Len(events) # 0
    /\ generatedAudioBuffer.present
    /\ audioContextRef

\* What the sequencer reads and writes: a record of the surface, the
\* outstanding play requests, the attached listeners, the recorder and the trace.
Surface(v, p, l, r, tr) ==
    [video |-> v, pending |-> p, listeners |-> l, recorder |-> r, trace |-> tr]

\* One call: the operation, the segment index, the time it is about (the start
\* sought, the end watched for) and whether the surface had reached that time.
Op(op, i, t, hit) == [op |-> op, i |-> i, t |-> t, hit |-> hit]

\* mediaRecorder.stop()
RecorderStop(r) ==
    IF r.state = "recording" THEN [r EXCEPT !.state = "stopped"] ELSE r

\* playNextClip that takes the start of a segment from the list the
\* commentary buffer was made for.
playNextClipFollowsAudio(s, evs, index) ==
    IF index >= Len(evs)
    THEN [s EXCEPT !.recorder = RecorderStop(@),
                   !.trace = Append(@, Op("stop", index, 0, TRUE))]
    ELSE LET from == generatedAudioBuffer.from
             evt == IF index < Len(from) THEN from[index + 1] ELSE evs[index + 1]
             start == Min(evt.startTime, Duration)
         IN  [s EXCEPT !.video.currentTime = start,
                       !.pending = @ \cup {index},
                       !.trace = @ \o <<Op("seek", index, start, TRUE),
                                        Op("play", index, start, TRUE)>>]

\* playNextClip that rewinds the surface before it looks at the index.
playNextClipRewindsFirst(s, evs, index) ==
    IF index >= Len(evs)
    THEN [s EXCEPT !.video.currentTime = 0,
                   !.recorder = RecorderStop(@),
                   !.trace = Append(@, Op("stop", index, 0, TRUE))]
    ELSE LET start == Min(evs[index + 1].startTime, Duration)
         IN  [s EXCEPT !.video.currentTime = start,
                       !.pending = @ \cup {index},
                       !.trace = @ \o <<Op("seek", index, start, TRUE),
                                        Op("play", index, start, TRUE)>>]

\* playNextClip that never asks the recorder to stop.
playNextClipNeverStops(s, evs, index) ==
    IF index >= Len(evs)
    THEN [s EXCEPT !.trace = Append(@, Op("stop", index, 0, TRUE))]
    ELSE LET start == Min(evs[index + 1].startTime, Duration)
         IN  [s EXCEPT !.video.currentTime = start,
                       !.pending = @ \cup {index},
                       !.trace = @ \o <<Op("seek", index, start, TRUE),
                                        Op("play", index, start, TRUE)>>]

\* playNextClip that asks for playback before it seeks.
playNextClipPlaysFirst(s, evs, index) ==
    IF index >= Len(evs)
    THEN [s EXCEPT !.recorder = RecorderStop(@),
                   !.trace = Append(@, Op("stop", index, 0, TRUE))]
    ELSE LET start == Min(evs[index + 1].startTime, Duration)
         IN  [s EXCEPT !.video.currentTime = start,
                       !.pending = @ \cup {index},
                       !.trace = @ \o <<Op("play", index, start, TRUE),
                                        Op("seek", index, start, TRUE)>>]

\* playNextClip(index), up to its `await video.play()`.
playNextClip(s, evs, index) ==
    IF index >= Len(evs)
    THEN [s EXCEPT !.recorder = RecorderStop(@),
                   !.trace = Append(@, Op("stop", index, 0, TRUE))]
    ELSE LET start == Min(evs[index + 1].startTime, Duration)
         IN  [s EXCEPT !.video.currentTime = start,
                       !.pending = @ \cup {index},
                       !.trace = @ \o <<Op("seek", index, start, TRUE),
                                        Op("play", index, start, TRUE)>>]

\* checkTime that advances without detaching itself from 'timeupdate'.
checkTimeStaysAttached(s, evs, index) ==
    IF s.video.currentTime >= evs[index + 1].endTime
    THEN playNextClip(
             [s EXCEPT !.video.paused = TRUE,
                       !.trace = Append(@, Op("pause", index, evs[index + 1].endTime,
                                             s.video.currentTime >= evs[index + 1].endTime))],
             evs, index + 1)
    ELSE s

\* checkTime that detaches itself only when a further segment follows.
checkTimeKeepsLastAttached(s, evs, index) ==
    IF s.video.currentTime >= evs[index + 1].endTime
    THEN playNextClip(
             [s EXCEPT !.video.paused = TRUE,
                       !.listeners = IF index + 1 < Len(evs) THEN @ \ {index} ELSE @,
                       !.trace = Append(@, Op("pause", index, evs[index + 1].endTime,
                                             s.video.currentTime >= evs[index + 1].endTime))],
             evs, index + 1)
    ELSE s

\* checkTime of segment `index`, run for one timeupdate notification.
checkTime(s, evs, index) ==
    IF s.video.currentTime >= evs[index + 1].endTime
    THEN playNextClip(
             [s EXCEPT !.video.paused = TRUE,
                       !.listeners = @ \ {index},
                       !.trace = Append(@, Op("pause", index, evs[index + 1].endTime,
                                             s.video.currentTime >= evs[index + 1].endTime))],
             evs, index + 1)
    ELSE s

\* A dispatch whose checkTime reads the events of the latest render when
\* that list is long enough.
RECURSIVE dispatchReadsLiveEvents(_, _, _)
dispatchReadsLiveEvents(s, evs, todo) ==
    IF todo = {} THEN s
    ELSE LET index == CHOOSE x \in todo : \A y \in todo : x <= y
             live == IF Len(events) >= Len(evs) THEN events ELSE evs
         IN  dispatchReadsLiveEvents(checkTime(s, live, index), evs, todo \ {index})

\* One 'timeupdate' event: every attached checkTime runs, in order.
RECURSIVE dispatchTimeUpdate(_, _, _)
dispatchTimeUpdate(s, evs, todo) ==
    IF todo = {} THEN s
    ELSE LET index == CHOOSE x \in todo : \A y \in todo : x <= y
         IN  dispatchTimeUpdate(checkTime(s, evs, index), evs, todo \ {index})

\* A restore that forgets the mute flag.
RestoreTimeOnly(v, originalTime, originalMuted) ==
    [v EXCEPT !.currentTime = originalTime]

\* "Restore state": video.currentTime = originalTime; video.muted = originalMuted
\* (in onstop and in the catch block).
RestoreNothing(v, originalTime, originalMuted) == v

Restore(v, originalTime, originalMuted) ==
    [v EXCEPT !.currentTime = originalTime, !.muted = originalMuted]

\* The precondition fails: alert and return.
ExportRejected ==
    /\ Ready
    /\ ~ExportDisabled
    /\ ~ExportPrecondition
    /\ io' = Alert("export precondition")
    /\ UNCHANGED <<appVars, exportVars, video>>

\* A recorder that went on recording although its start() threw.
FailedRecorderStillRecording(at) ==
    IF at = "start"
    THEN [state |-> "recording", hasData |-> FALSE]
    ELSE NoRecorder

\* The recorder a failed set-up leaves behind: none when the failure came
\* before `new MediaRecorder`, an inactive one when start() threw.
FailedRecorder(at) ==
    IF at = "start"
    THEN [state |-> "inactive", hasData |-> FALSE]
    ELSE NoRecorder

\* The precondition holds and the set-up throws before playNextClip(0) is
\* called: captureStream missing, the MediaRecorder constructor, or start().
\* The catch block runs in the same step.
ExportFailed ==
    /\ Ready
    /\ \E at \in {"capture", "construct", "start"} :
        /\ ~ExportDisabled
        /\ ExportPrecondition
        /\ CountMsg("exporting") < MaxExports
        /\ LET originalTime == video.currentTime
               originalMuted == video.muted
               v == IF at = "start" THEN [video EXCEPT !.muted = TRUE] ELSE video
           IN  video' = Restore(v, originalTime, originalMuted)
        /\ messages' = addMessage(addMessage(messages, "agent", "exporting"),
                                  "agent", "export failed")
        /\ isExporting' = FALSE
        /\ recorder' = FailedRecorder(at)
        /\ io' = ConsoleError("Export failed")
        /\ UNCHANGED <<videoFile, events, isProcessing, generatedAudioBuffer,
                       audioContextRef, tasks, exp, pending, listeners, chunks,
                       downloads, trace>>

\* A start of the capture that leaves the surface audible.
StartCaptureLeavesSound(v) ==
    Surface(v, {}, {},
            [state |-> "recording", hasData |-> FALSE],
            <<Op("record", 0, 0, TRUE),
              Op("audio", 0, 0, TRUE)>>)

\* video.muted = true; mediaRecorder.start(); audioSource.start(0);
StartCapture(v) ==
    Surface([v EXCEPT !.muted = TRUE], {}, {},
            [state |-> "recording", hasData |-> FALSE],
            <<Op("mute", 0, 0, TRUE),
              Op("record", 0, 0, TRUE),
              Op("audio", 0, 0, TRUE)>>)

\* The precondition holds and the set-up succeeds: snapshot, build the
\* session, mute, start the recorder and the audio source, playNextClip(0)
\* up to its await.
ExportStarted ==
    /\ Ready
    /\ ~ExportDisabled
    /\ ExportPrecondition
    /\ CountMsg("exporting") < MaxExports
    /\ isExporting' = TRUE
    /\ messages' = addMessage(messages, "agent", "exporting")
    /\ exp' = [events |-> events,
               originalTime |-> video.currentTime,
               originalMuted |-> video.muted]
    /\ chunks' = <<>>
    /\ LET s0 == StartCapture(video)
           s1 == playNextClip(s0, events, 0)
       IN  /\ video' = s1.video
           /\ pending' = s1.pending
           /\ listeners' = s1.listeners
           /\ recorder' = s1.recorder
           /\ trace' = s1.trace
    /\ io' = Quiet
    /\ UNCHANGED <<videoFile, events, isProcessing, generatedAudioBuffer,
                   audioContextRef, tasks, downloads>>

handleExportVideo == ExportRejected \/ ExportFailed \/ ExportStarted

\* `await video.play()` of segment `index` resolves: attach checkTime.
PlayResolved ==
    /\ Ready
    /\ \E index \in pending :
        /\ pending' = pending \ {index}
        /\ listeners' = listeners \cup {index}
        /\ video' = [video EXCEPT !.paused = FALSE]
        /\ io' = Quiet
        /\ UNCHANGED <<appVars, isExporting, exp, recorder, chunks, downloads, trace>>

\* `await video.play()` rejects: the inner catch logs, then checkTime is
\* attached all the same.
PlayRejected ==
    /\ Ready
    /\ \E index \in pending :
        /\ pending' = pending \ {index}
        /\ listeners' = listeners \cup {index}
        /\ io' = ConsoleError("Autoplay failed during export")
        /\ UNCHANGED <<appVars, isExporting, exp, recorder, chunks, downloads,
                       trace, video>>

\* The surface is playing: currentTime advances and 'timeupdate' fires (the
\* last one when the end of the media is reached).  A recording recorder
\* gathers data meanwhile.
TimeUpdate ==
    /\ Ready
    /\ \E d \in 1..MaxStep :
        /\ ~video.paused
        /\ video.currentTime < Duration
        /\ LET s0 == Surface(
                         [video EXCEPT !.currentTime = Min(@ + d, Duration)],
                         pending, listeners,
                         IF recorder.state = "recording"
                         THEN [recorder EXCEPT !.hasData = TRUE] ELSE recorder,
                         trace)
               s1 == dispatchTimeUpdate(s0, exp.events, listeners)
           IN  /\ video' = s1.video
               /\ pending' = s1.pending
               /\ listeners' = s1.listeners
               /\ recorder' = s1.recorder
               /\ trace' = s1.trace
        /\ io' = Quiet
        /\ UNCHANGED <<appVars, isExporting, exp, chunks, downloads>>

\* An ondataavailable that keeps every blob.
ondataavailableKeepsEmpty(cs, size) == Append(cs, size)

\* mediaRecorder.ondataavailable for the blob e.data of size `size`.
ondataavailable(cs, size) == IF size > 0 THEN Append(cs, size) ELSE cs

\* The stopped recorder delivers its data, then its stop event:
\* ondataavailable, then onstop (download, restore, message, setIsExporting).
RecorderFinalized ==
    /\ Ready
    /\ recorder.state = "stopped"
    /\ LET cs == ondataavailable(chunks, IF recorder.hasData THEN 1 ELSE 0)
       IN  /\ chunks' = cs
           /\ downloads' = Append(downloads, cs)
    /\ video' = [Restore(video, exp.originalTime, exp.originalMuted)
                    EXCEPT !.paused = TRUE]
    /\ messages' = addMessage(messages, "agent", "export complete")
    /\ isExporting' = FALSE
    /\ recorder' = [state |-> "inactive", hasData |-> FALSE]
    /\ io' = Quiet
    /\ UNCHANGED <<videoFile, events, isProcessing, generatedAudioBuffer,
                   audioContextRef, tasks, exp, pending, listeners, trace>>

\* ---------------------------------------------------------------- Next
\* The user dismisses the alert.
AlertDismissed ==
    /\ io.alert # "none"
    /\ io' = Quiet
    /\ UNCHANGED <<appVars, exportVars, video>>

Next ==
    \/ AlertDismissed
    \/ UploadNoFile \/ UploadTooLarge \/ UploadAccepted
    \/ handleAnalyze
    \/ AnalyzeRead \/ AnalyzeReadFailed
    \/ AnalyzeDetected \/ AnalyzeDetectFailed
    \/ AnalyzeDone \/ AnalyzeContextFailed
    \/ handleGenerateCommentary
    \/ CommentaryScript \/ CommentaryScriptFailed
    \/ CommentaryAudio \/ CommentaryNoAudio
    \/ CommentaryDecoded \/ CommentaryDecodeFailed
    \/ handleSeek
    \/ ExportRejected \/ ExportFailed \/ ExportStarted
    \/ PlayResolved \/ PlayRejected
    \/ TimeUpdate
    \/ RecorderFinalized

Spec == Init /\ [][Next]_vars

\* ================================================================ claims
\* The calls of one kind in the trace of the current run, in order.
Calls(kind) == SelectSeq(trace, LAMBDA c : c.op = kind)

\* The segment list is in ascending startTime order.
Ascending(evs) ==
    \A a, b \in DOMAIN evs : a < b => evs[a].startTime <= evs[b].startTime

\* An export attempt begins in this step.
AttemptBegins == CountMsg("exporting")' > CountMsg("exporting")

C2_PairRestored ==
    [][ /\ (AttemptBegins /\ isExporting') =>
              /\ exp'.originalTime = video.currentTime
              /\ exp'.originalMuted = video.muted
        /\ (isExporting /\ isExporting') =>
              /\ exp'.originalTime = exp.originalTime
              /\ exp'.originalMuted = exp.originalMuted
        /\ (isExporting /\ ~isExporting') =>
              /\ video'.currentTime = exp.originalTime
              /\ video'.muted = exp.originalMuted
        /\ (AttemptBegins /\ ~isExporting') =>
              /\ video'.currentTime = video.currentTime
              /\ video'.muted = video.muted
      ]_vars

\* A finished export has put a surface that was at second 5, unmuted, back
\* there, and a failed attempt has been made as well.
C2_Witness ==
    /\ ~isExporting
    /\ CountMsg("export complete") = 1
    /\ CountMsg("export failed") = 1
    /\ exp.originalTime = 5 /\ ~exp.originalMuted
    /\ video.currentTime = 5 /\ ~video.muted

\* ---------------------------------------------------------------- C3
\* C3: an export attempt never begins while another is in progress: in the
\* step that begins one, isExporting is false, no recorder is recording, no
\* play request of the sequencer is outstanding and no checkTime is attached.
\* So at most one capture session exists at any time.
C3_NoSecondSession ==
    [][ AttemptBegins =>
            /\ ~isExporting
            /\ recorder.state # "recording"
            /\ pending = {}
            /\ listeners = {}
      ]_vars

\* An export is in progress, everything else an export needs is in place,
\* and the button refuses the click.
C3_Witness ==
    /\ isExporting
    /\ recorder.state = "recording"
    /\ ExportPrecondition
    /\ ExportDisabled
    /\ CountMsg("exporting") = 1

\* ---------------------------------------------------------------- C4
\* What the claim calls the export preconditions.
PreconditionsPresent ==
    videoFile /\ events # <<>> /\ generatedAudioBuffer.present

\* C4: while a precondition is missing no export attempt begins, and the step
\* that shows the precondition alert changes nothing else: isExporting stays
\* false, the surface, the recorder, the listeners and every other variable
\* keep their values.
C4_RejectedWithoutEffect ==
    [][ /\ ~PreconditionsPresent => ~AttemptBegins
        /\ (~PreconditionsPresent /\ ~isExporting) =>
              /\ ~isExporting'
              /\ recorder' = recorder
              /\ pending' = pending /\ listeners' = listeners
        /\ io'.alert = "export precondition" =>
              /\ ~PreconditionsPresent
              /\ ~isExporting /\ ~isExporting'
              /\ UNCHANGED <<appVars, exportVars, video>>
      ]_vars

\* The export button was enabled (a commentary buffer exists), the events
\* list was empty, and the click ended in the alert.
C4_Witness ==
    /\ io.alert = "export precondition"
    /\ events = <<>>
    /\ generatedAudioBuffer.present
    /\ ~isExporting
    /\ recorder.state = "none"

\* ---------------------------------------------------------------- C5
\* C5: an export attempt whose set-up throws (no captureStream on the video
\* element is one way) reports the failure in the chat, never leaves a
\* recorder recording, never starts the sequencer (no play request, no
\* checkTime, no call on the surface recorded), leaves currentTime, muted and
\* paused of the surface as they were, and ends with isExporting false.
C5_CapabilityFailure ==
    [][ io'.error = "Export failed" =>
            /\ AttemptBegins
            /\ CountMsg("export failed")' = CountMsg("export failed") + 1
            /\ ~isExporting /\ ~isExporting'
            /\ video' = video
            /\ recorder'.state # "recording"
            /\ pending = {} /\ pending' = {}
            /\ listeners = {} /\ listeners' = {}
            /\ trace' = trace
            /\ chunks' = chunks /\ downloads' = downloads
      ]_vars

\* The attempt failed while the surface was playing at second 5; it is still
\* playing there, no recorder was ever built and nothing was recorded.
C5_Witness ==
    /\ io.error = "Export failed"
    /\ CountMsg("export failed") = 1
    /\ CountMsg("exporting") = 1
    /\ ~isExporting
    /\ recorder = NoRecorder
    /\ trace = <<>>
    /\ video = [currentTime |-> 5, muted |-> FALSE, paused |-> FALSE]

\* ---------------------------------------------------------------- C6
\* The surface has the pair the running export saved, and the export is over.
RestoredAfterFailure ==
    /\ ~isExporting'
    /\ video'.currentTime = exp.originalTime
    /\ video'.muted = exp.originalMuted
    /\ CountMsg("export failed")' > CountMsg("export failed")

\* C6: when the play request of a segment is rejected during an export, the
\* export is aborted in that step: the saved pair is back on the surface,
\* isExporting is false, the failure is reported, and no checkTime is
\* attached for the segment.
C6_PlayRejectionAborts ==
    [][ io'.error = "Autoplay failed during export" =>
            /\ RestoredAfterFailure
            /\ listeners' = {}
      ]_vars

\* ---------------------------------------------------------------- C7
\* C7: every failure raised while an export is in progress, whichever segment
\* index playNextClip was called for, ends the export with the saved pair
\* restored.
C7_EveryFailureRestores ==
    [][ \A index \in pending :
            (isExporting /\ io'.error # "none" /\ index \notin pending')
                => RestoredAfterFailure
      ]_vars

\* ---------------------------------------------------------------- C8
\* 'timeupdate' once no play() promise is outstanding: the browser resolves
\* the promise as playback starts, before the position has moved on by a
\* whole second.
TimeUpdateAfterPlay == pending = {} /\ TimeUpdate

\* The steps of the program in which every video.play() resolves.
NextPlaysResolve ==
    \/ AlertDismissed
    \/ UploadNoFile \/ UploadTooLarge \/ UploadAccepted
    \/ handleAnalyze
    \/ AnalyzeRead \/ AnalyzeReadFailed
    \/ AnalyzeDetected \/ AnalyzeDetectFailed
    \/ AnalyzeDone \/ AnalyzeContextFailed
    \/ handleGenerateCommentary
    \/ CommentaryScript \/ CommentaryScriptFailed
    \/ CommentaryAudio \/ CommentaryNoAudio
    \/ CommentaryDecoded \/ CommentaryDecodeFailed
    \/ handleSeek
    \/ ExportRejected \/ ExportFailed \/ ExportStarted
    \/ PlayResolved
    \/ TimeUpdateAfterPlay
    \/ RecorderFinalized

\* The browser resolves every play() promise, delivers 'timeupdate' while the
\* video plays and delivers the recorder's stop event; an alert that is
\* showing is dismissed; and the user clicks on the clip list only finitely
\* often.
FairSpec ==
    /\ Init
    /\ [][NextPlaysResolve]_vars
    /\ SF_vars(PlayResolved)
    /\ SF_vars(TimeUpdateAfterPlay)
    /\ SF_vars(RecorderFinalized)
    /\ WF_vars(AlertDismissed)
    /\ <>[][~handleSeek]_vars

AllEndWithinMedia(evs) == \A k \in DOMAIN evs : evs[k].endTime <= Duration

C9_EndOfMediaAdvances ==
    \A index \in listeners :
        (isExporting /\ exp.events[index + 1].endTime > Duration)
            => video.currentTime < Duration

\* ---------------------------------------------------------------- C10
\* The calls the sequencer makes for segments index+1.. of evs, in order.
RECURSIVE ExpectedCalls(_, _)
ExpectedCalls(evs, index) ==
    IF index >= Len(evs)
    THEN <<Op("stop", index, 0, TRUE)>>
    ELSE LET start == Min(evs[index + 1].startTime, Duration)
         IN  <<Op("seek", index, start, TRUE),
               Op("play", index, start, TRUE),
               Op("pause", index, evs[index + 1].endTime, TRUE)>>
             \o ExpectedCalls(evs, index + 1)

IsPrefix(a, b) == Len(a) <= Len(b) /\ a = SubSeq(b, 1, Len(a))

ScenarioA == WithIds(<<Clip(0, 2), Clip(5, 7)>>)

\* C10: after muting, starting the recorder and starting the audio source,
\* the calls on the surface are, segment by segment, seek to startTime, play,
\* then pause once currentTime >= endTime, and stop after the last segment.
\* For the segments (0,2), (5,7) a run that has requested the stop has made
\* exactly seek 0, play, pause, seek 5, play, pause, stop, and once that run
\* is finalized the recorder has delivered at least one chunk.
C10_SegmentCallOrder ==
    /\ trace # <<>> =>
          /\ Len(trace) >= 3
          /\ <<trace[1].op, trace[2].op, trace[3].op>>
                = <<"mute", "record", "audio">>
          /\ IsPrefix(SubSeq(trace, 4, Len(trace)),
                      ExpectedCalls(exp.events, 0))
    /\ (exp.events = ScenarioA /\ Calls("stop") # <<>>) =>
          /\ SubSeq(trace, 4, Len(trace))
                = <<Op("seek", 0, 0, TRUE), Op("play", 0, 0, TRUE),
                    Op("pause", 0, 2, TRUE),
                    Op("seek", 1, 5, TRUE), Op("play", 1, 5, TRUE),
                    Op("pause", 1, 7, TRUE),
                    Op("stop", 2, 0, TRUE)>>
          /\ (~isExporting /\ recorder.state = "inactive"
                /\ CountMsg("export failed") = 0) =>
                  (chunks # <<>> /\ downloads # <<>>)

\* The export of the segments (0,2), (5,7) has completed and was downloaded.
C10_Witness ==
    /\ exp.events = ScenarioA
    /\ ~isExporting
    /\ recorder.state = "inactive"
    /\ CountMsg("export complete") = 1
    /\ Len(trace) = 10
    /\ chunks # <<>>
    /\ Len(downloads) = 1

\* ---------------------------------------------------------------- C11
\* The sequencer on its own: handleExportVideo has muted the surface and
\* started the recorder and the audio source, and is about to call
\* playNextClip(0) on a list of segments that may be empty.
SequencerLists == {<<>>} \cup {WithIds(SortByStartTime(raw)) : raw \in DetectedLists}

SequencerInit ==
    /\ videoFile = TRUE
    /\ events \in SequencerLists
    /\ messages = SetToBag({Msg("agent", "welcome"), Msg("agent", "exporting")})
    /\ isProcessing = FALSE
    /\ isExporting = TRUE
    /\ generatedAudioBuffer = BufferOf(events)
    /\ audioContextRef = TRUE
    /\ \E t \in {0, 5, Duration}, p \in BOOLEAN :
          video = [currentTime |-> t, muted |-> TRUE, paused |-> p]
    /\ tasks = {}
    /\ \E m \in BOOLEAN :
          exp = [events |-> events, originalTime |-> video.currentTime,
                 originalMuted |-> m]
    /\ pending = {}
    /\ listeners = {}
    /\ recorder = [state |-> "recording", hasData |-> FALSE]
    /\ chunks = <<>>
    /\ downloads = <<>>
    /\ trace = <<Op("mute", 0, 0, TRUE), Op("record", 0, 0, TRUE),
                 Op("audio", 0, 0, TRUE)>>
    /\ io = Quiet

\* await playNextClip(0), up to its first await.
SequencerStart ==
    /\ Ready
    /\ Len(trace) = 3
    /\ recorder.state = "recording"
    /\ LET s1 == playNextClip(Surface(video, pending, listeners, recorder, trace),
                              exp.events, 0)
       IN  /\ video' = s1.video
           /\ pending' = s1.pending
           /\ listeners' = s1.listeners
           /\ recorder' = s1.recorder
           /\ trace' = s1.trace
    /\ io' = Quiet
    /\ UNCHANGED <<appVars, isExporting, exp, chunks, downloads>>

SequencerNext ==
    \/ SequencerStart
    \/ PlayResolved
    \/ PlayRejected
    \/ TimeUpdate
    \/ RecorderFinalized

SequencerSpec == SequencerInit /\ [][SequencerNext]_vars

\* C11: for an empty list of segments the call of playNextClip(0) asks the
\* recorder to stop in that very step and does nothing else: currentTime,
\* muted and paused of the surface keep their values, no play request is
\* made and no checkTime is attached; nothing later is recorded as a call of
\* the sequencer.
C11_EmptyListStopsAtOnce ==
    [][ (exp.events = <<>> /\ trace' # trace) =>
            /\ Len(trace) = 3
            /\ trace' = Append(trace, Op("stop", 0, 0, TRUE))
            /\ recorder.state = "recording" /\ recorder'.state = "stopped"
            /\ video' = video
            /\ pending' = {} /\ listeners' = {}
      ]_vars

\* The sequencer was started on an empty list with the surface playing at
\* second 5: the stop was requested and the surface is still there.
C11_Witness ==
    /\ exp.events = <<>>
    /\ trace = <<Op("mute", 0, 0, TRUE), Op("record", 0, 0, TRUE),
                 Op("audio", 0, 0, TRUE), Op("stop", 0, 0, TRUE)>>
    /\ recorder.state = "stopped"
    /\ video = [currentTime |-> 5, muted |-> TRUE, paused |-> FALSE]
    /\ pending = {} /\ listeners = {}

\* ---------------------------------------------------------------- C12
DetectionThrew == io.error = "Error analyzing video, Analysis failed"

\* C12: in the step in which analyzeBasketballVideo throws inside
\* handleAnalyze, events keeps its value, exactly one message, the failure
\* message, is appended, isProcessing becomes false and the handler is
\* finished.  Before that step the call has not touched events either: while
\* an analysis waits for the file or for the detection, events changes only
\* when the detection resolves or a new file is uploaded.
C12_DetectionFailure ==
    [][ /\ DetectionThrew' =>
              /\ Task("analyze", "detect", <<>>) \in tasks
              /\ events' = events
              /\ messages' = addMessage(messages, "agent", "analysis failed")
              /\ isProcessing /\ ~isProcessing'
              /\ tasks' = {}
        /\ ((\E t \in tasks : t.h = "analyze" /\ t.pc \in {"read", "detect"})
             /\ events' # events) =>
              \/ Task("analyze", "context", <<>>) \in tasks'
              \/ (events' = <<>> /\ CountMsg("uploaded")' > CountMsg("uploaded"))
      ]_vars

\* A second analysis has just failed in the detection call: the events of
\* the first one are still there.
C12_Witness ==
    /\ DetectionThrew
    /\ events # <<>>
    /\ CountMsg("analyze") = 2
    /\ CountMsg("analysis complete") = 1
    /\ CountMsg("analysis failed") = 1
    /\ ~isProcessing
    /\ tasks = {}

\* ---------------------------------------------------------------- C13
\* evs lists the events of raw, each once, ascending by startTime, and events
\* that start together stand in the order they have in raw.
IsStableOrderOf(evs, raw) ==
    /\ Len(evs) = Len(raw)
    /\ \E f \in [DOMAIN evs -> DOMAIN raw] :
          /\ \A i, j \in DOMAIN evs : i # j => f[i] # f[j]
          /\ \A i \in DOMAIN evs : Clip(evs[i].startTime, evs[i].endTime) = raw[f[i]]
          /\ \A i, j \in DOMAIN evs :
                (i < j /\ evs[i].startTime = evs[j].startTime) => f[i] < f[j]

OrderedWithIds(evs) ==
    /\ Ascending(evs)
    /\ \A i \in DOMAIN evs : evs[i].id = <<"evt", i - 1>>
    /\ \E raw \in DetectedLists : IsStableOrderOf(evs, raw)

\* C13: in every reachable state events, and the list the running export
\* walks, is ascending by startTime, keeps events of equal startTime in the
\* order of the detection result, and has the id evt-i at position i
\* (counted from 0).
C13_EventsOrdered ==
    /\ OrderedWithIds(events)
    /\ OrderedWithIds(exp.events)

\* An analysis delivered two events that start together, which an export
\* took; a further analysis delivered scenario A, detected out of order.
C13_Witness ==
    /\ exp.events = WithIds(<<BeyondEnd, Clip(5, 7)>>)
    /\ events = WithIds(<<Clip(0, 2), Clip(5, 7)>>)
    /\ CountMsg("analysis complete") = 2

\* ---------------------------------------------------------------- C14
\* The position moved on because the surface is playing.
PlaybackAdvanced ==
    /\ ~video.paused
    /\ video'.currentTime - video.currentTime \in 1..MaxStep
    /\ video'.muted = video.muted

\* C14: while an export is in progress, currentTime, muted and paused of the
\* surface change only in a step of the sequencer (a call recorded in trace,
\* or the play request of a segment settling) or because playback advances;
\* a click handled by handleSeek changes nothing.
C14_SequencerSoleWriter ==
    [][ (isExporting /\ isExporting' /\ video' # video) =>
            \/ trace' # trace
            \/ pending' # pending
            \/ PlaybackAdvanced
      ]_vars

\* ---------------------------------------------------------------- C15
\* C15: handleGenerateCommentary appends the soft "no audio" message only
\* when the synthesis call came back without audio and without failing; a
\* synthesis call that failed (the console shows "TTS Error") ends with the
\* error message of the catch block instead.
C15_AbsentIsNotFailure ==
    [][ /\ CountMsg("no audio")' > CountMsg("no audio") => io'.error = "none"
        /\ io'.error = "TTS Error" =>
              CountMsg("commentary failed")' = CountMsg("commentary failed") + 1
      ]_vars

\* ---------------------------------------------------------------- C16
\* C16: at every moment at most one segment is being watched: at most one
\* checkTime is attached, never together with an outstanding play request,
\* and only during an export; the segment watched or waited for is the one
\* whose play request is the latest call of the sequencer, so the checkTime
\* of the segment before it is gone.  No segment is paused twice.
C16_OneObserver ==
    /\ Cardinality(listeners \cup pending) <= 1
    /\ \A index \in listeners \cup pending :
          /\ isExporting
          /\ trace # <<>>
          /\ trace[Len(trace)].op = "play"
          /\ trace[Len(trace)].i = index
    /\ \A a, b \in DOMAIN Calls("pause") :
          a # b => Calls("pause")[a].i # Calls("pause")[b].i

\* Segment 0 has ended and was paused; the checkTime of segment 1 is the one
\* attached.
C16_Witness ==
    /\ listeners = {1}
    /\ pending = {}
    /\ Len(Calls("pause")) = 1
    /\ Calls("pause")[1].i = 0
    /\ ~video.paused

\* ---------------------------------------------------------------- C17
\* C17: the calls of an export run begin with muting the surface, starting
\* the recorder and starting the audio source at time zero, each of them
\* exactly once and all in the step that begins the export, which also makes
\* the first seek and play request; every seek and play comes after them, and
\* the surface is muted for as long as isExporting is true.
C17_MuteRecordAudioFirst ==
    /\ trace # <<>> =>
          /\ Len(trace) >= 3
          /\ trace[1] = Op("mute", 0, 0, TRUE)
          /\ trace[2] = Op("record", 0, 0, TRUE)
          /\ trace[3] = Op("audio", 0, 0, TRUE)
          /\ \A k \in DOMAIN trace :
                k > 3 => trace[k].op \in {"seek", "play", "pause", "stop"}
    /\ isExporting =>
          /\ video.muted
          /\ Len(trace) >= 5
          /\ trace[4].op = "seek" /\ trace[5].op = "play"
          /\ recorder.state \in {"recording", "stopped"}

\* The export began on an audible surface and is now past its first segment,
\* still muted.
C17_Witness ==
    /\ isExporting
    /\ ~exp.originalMuted
    /\ video.muted
    /\ Len(Calls("seek")) = 2
    /\ Len(Calls("audio")) = 1
    /\ recorder.state = "recording"

\* ---------------------------------------------------------------- C18
\* C18: whenever isExporting is false, whether no export was tried yet, the
\* last one completed or the last one failed in its set-up, no recorder is
\* recording or waiting to be finalized, no checkTime is attached and no play
\* request of a sequencer is outstanding.
C18_IdleHoldsNoSession ==
    ~isExporting =>
        /\ recorder.state \in {"none", "inactive"}
        /\ listeners = {}
        /\ pending = {}

\* One export has completed, a later attempt failed when it started its
\* recorder, and the controller is idle.
C18_Witness ==
    /\ ~isExporting
    /\ CountMsg("export complete") = 1
    /\ CountMsg("export failed") = 1
    /\ io.error = "Export failed"
    /\ recorder.state = "inactive"
    /\ Len(downloads) = 1

\* ---------------------------------------------------------------- C19
\* The recorder on its own: it is recording for a running export and
\* delivers blobs of any size, the empty one included, until it is stopped;
\* each delivery is noted in trace.
RecorderInit ==
    /\ videoFile = TRUE
    /\ events = ScenarioA
    /\ messages = SetToBag({Msg("agent", "welcome"), Msg("agent", "exporting")})
    /\ isProcessing = FALSE
    /\ isExporting = TRUE
    /\ generatedAudioBuffer = BufferOf(events)
    /\ audioContextRef = TRUE
    /\ video = [currentTime |-> 0, muted |-> TRUE, paused |-> TRUE]
    /\ tasks = {}
    /\ exp = [events |-> events, originalTime |-> 0, originalMuted |-> FALSE]
    /\ pending = {}
    /\ listeners = {}
    /\ \E d \in BOOLEAN : recorder = [state |-> "recording", hasData |-> d]
    /\ chunks = <<>>
    /\ downloads = <<>>
    /\ trace = <<>>
    /\ io = Quiet

\* A dataavailable event while the recorder is recording.
RecorderData ==
    /\ recorder.state = "recording"
    /\ Len(trace) < MaxChunks
    /\ \E size \in 0..MaxChunkSize :
          /\ chunks' = ondataavailable(chunks, size)
          /\ trace' = Append(trace, Op("data", 0, size, TRUE))
    /\ UNCHANGED <<appVars, isExporting, exp, pending, listeners, recorder,
                   downloads, video, io>>

\* mediaRecorder.stop()
RecorderStopCalled ==
    /\ recorder.state = "recording"
    /\ recorder' = RecorderStop(recorder)
    /\ UNCHANGED <<appVars, isExporting, exp, pending, listeners, chunks,
                   downloads, trace, video, io>>

RecorderNext ==
    \/ RecorderData
    \/ RecorderStopCalled
    \/ RecorderFinalized

RecorderSpec == RecorderInit /\ [][RecorderNext]_vars

\* The sizes of the blobs delivered so far, in the order of arrival.
Delivered ==
    LET data == Calls("data") IN [k \in DOMAIN data |-> data[k].t]

NonEmptyOnes(sizes) == SelectSeq(sizes, LAMBDA size : size > 0)

\* C19: while the recorder runs, chunks holds exactly the non-empty blobs
\* delivered, in the order of arrival.  A download happens only in the step
\* that finalizes a stopped recorder, that step always makes one, and what is
\* downloaded is chunks with the last blob of the recorder added if it is
\* not empty; so there is one download per completed export.
C19_ArtifactFromChunks ==
    /\ [](recorder.state \in {"recording", "stopped"} =>
              chunks = NonEmptyOnes(Delivered))
    /\ [](Len(downloads) = CountMsg("export complete"))
    /\ [][ /\ (downloads' # downloads) =>
                  /\ recorder.state = "stopped" /\ recorder'.state = "inactive"
                  /\ chunks' = IF recorder.hasData THEN Append(chunks, 1) ELSE chunks
                  /\ downloads' = Append(downloads, chunks')
                  /\ isExporting /\ ~isExporting'
           /\ (recorder.state = "stopped" /\ recorder' # recorder) =>
                  Len(downloads') = Len(downloads) + 1
         ]_vars

\* An empty blob arrived between two others, the recorder was stopped and
\* finalized, and the download holds the two others and the last blob.
C19_Witness ==
    /\ Delivered = <<2, 0, 1>>
    /\ recorder.state = "inactive"
    /\ downloads = << <<2, 1, 1>> >>
    /\ ~isExporting

\* ---------------------------------------------------------------- C20
\* C20: the list an export walks is events as it is when the export begins;
\* it stays that list while the export runs, whatever uploads and analyses
\* do to events meanwhile, and every call the sequencer adds is the next one
\* of the walk over that list.
C20_WalksListOfStart ==
    [][ /\ (AttemptBegins /\ isExporting') => exp'.events = events
        /\ isExporting => exp'.events = exp.events
        /\ (isExporting /\ trace' # trace) =>
              /\ Len(trace') > Len(trace)
              /\ SubSeq(trace', 1, Len(trace)) = trace
              /\ IsPrefix(SubSeq(trace', 4, Len(trace')),
                          ExpectedCalls(exp.events, 0))
      ]_vars

\* The export began on scenario A; an analysis has since replaced events by
\* two events that start together, the first ending after the media, and the
\* run has gone on to its second segment after pausing at the end the old
\* list gives.
C20_Witness ==
    /\ isExporting
    /\ exp.events = ScenarioA
    /\ events = WithIds(<<BeyondEnd, Clip(5, 7)>>)
    /\ Len(Calls("seek")) = 2
    /\ Calls("pause")[1].t = 2

\* ---------------------------------------------------------------- C21
\* C21: a handler that ends with its failure message leaves events and
\* generatedAudioBuffer as they were before it was called.  Both are empty
\* before the first call and after every upload, so as long as every
\* analysis started has ended with the failure message events is empty, and
\* as long as every commentary generation started has ended with the failure
\* message there is no commentary buffer.
C21_FailureLeavesState ==
    /\ CountMsg("analyze") = CountMsg("analysis failed") => events = <<>>
    /\ CountMsg("generate") = CountMsg("commentary failed") =>
          ~generatedAudioBuffer.present

\* ---------------------------------------------------------------- C22
AgentMessages(msgs) ==
    LET agent == {m \in BagToSet(msgs) : m.role = "agent"}
    IN  BagCardinality([m \in agent |-> CopiesIn(m, msgs)])

\* C22: every step in which an export, an analysis or a commentary generation
\* fails (the precondition alert of the export is shown, or a failure is
\* logged on the console) appends at least one agent message to messages.
C22_FailureIsReported ==
    [][ (io'.alert = "export precondition" \/ io'.error # "none") =>
            AgentMessages(messages') > AgentMessages(messages)
      ]_vars

\* ---------------------------------------------------------------- C23
\* The seek, play, pause and stop calls of the latest run, in order.
SequencerCalls ==
    SelectSeq(trace, LAMBDA c : c.op \in {"seek", "play", "pause", "stop"})

ProcessingNext ==
    \/ AlertDismissed
    \/ UploadNoFile \/ UploadTooLarge \/ UploadAccepted
    \/ handleAnalyze
    \/ AnalyzeRead \/ AnalyzeReadFailed
    \/ AnalyzeDetected \/ AnalyzeDetectFailed
    \/ AnalyzeDone \/ AnalyzeContextFailed
    \/ handleGenerateCommentary
    \/ CommentaryScript \/ CommentaryScriptFailed
    \/ CommentaryAudio \/ CommentaryNoAudio
    \/ CommentaryDecoded \/ CommentaryDecodeFailed
    \/ handleSubmit
    \/ ChatReplied \/ ChatFailed

ProcessingSpec == Init /\ [][ProcessingNext]_vars

\* The handlers in flight: suspended at an await of handleAnalyze,
\* handleGenerateCommentary or handleChat.
InFlight == {t \in tasks : t.h \in {"analyze", "commentary", "chat"}}

\* C24: with analysis, commentary and chat started only through their
\* controls, isProcessing is true exactly while one of handleAnalyze,
\* handleGenerateCommentary and handleChat is in flight; at most one of them
\* is in flight at a time; and every step in which one of them ends, by its
\* success path or by a failure path, leaves isProcessing false.
C24_ProcessingTracksOneHandler ==
    /\ [](isProcessing <=> InFlight # {})
    /\ [](Cardinality(InFlight) <= 1)
    /\ [][ (\E t \in InFlight : \A u \in InFlight' : u.h # t.h)
               => ~isProcessing' ]_vars

\* A chat is in flight after an analysis that succeeded, a commentary that
\* failed and a chat that failed have each ended.
C24_Witness ==
    /\ isProcessing
    /\ InFlight = {Task("chat", "reply", <<>>)}
    /\ CountMsg("analysis complete") = 1
    /\ CountMsg("commentary failed") = 1
    /\ CountMsg("chat failed") = 1
\* ---------------------------------------------------------------- C25
\* C25: in every reachable state, a commentary buffer that is present was
\* synthesized from the current events list: it is not one made for a list
\* that has since been replaced, and it is not present while events is empty.
C25_BufferFromCurrentEvents ==
    generatedAudioBuffer.present =>
        /\ events # <<>>
        /\ generatedAudioBuffer.from = events
\* ---------------------------------------------------------------- C26
\* The state handleFileUpload may write.
UploadState == <<videoFile, events, generatedAudioBuffer, messages>>

\* C26: a handleFileUpload call with no file, or with a file over 10 MB
\* (the step that raises the size alert), leaves the video, events,
\* generatedAudioBuffer and messages as they were; a call with an accepted
\* file (the step that appends the "uploaded" message) leaves a video
\* loaded, events empty and generatedAudioBuffer null, and appends exactly
\* two messages, the user's and the agent's.
C26_UploadFrameAndEffect ==
    /\ [][ UploadNoFile => UNCHANGED UploadState ]_vars
    /\ [][ io'.alert = "file too large" => UNCHANGED UploadState ]_vars
    /\ [][ CountMsg("uploaded")' # CountMsg("uploaded") =>
              /\ videoFile'
              /\ events' = <<>>
              /\ generatedAudioBuffer' = NoBuffer
              /\ BagCardinality(messages') = BagCardinality(messages) + 2
              /\ messages' = messages (+) SetToBag({Msg("user", "uploaded"),
                                                   Msg("agent", "video loaded")})
          ]_vars

\* A second video has been accepted after a commentary was generated for the
\* first: the segments and the buffer that commentary left are gone.
C26_Witness ==
    /\ CountMsg("uploaded") = 2
    /\ CountMsg("video loaded") = 2
    /\ CountMsg("commentary ready") = 1
    /\ events = <<>>
    /\ generatedAudioBuffer = NoBuffer
    /\ tasks = {}
====
